---- MODULE Spec2Model ----
(***************************************************************************)
(* Model of the document intake pipeline: run_pipeline (Run.py) over the   *)
(* store queries of DatabaseOps.py and the source table of config.py.      *)
(*                                                                         *)
(* Dates are day numbers.  NoDate is Python's None / SQL NULL, BadDate is  *)
(* a non-empty string that is not in '%Y-%m-%d' form, Sentinel1900 is the  *)
(* date 1900-01-01 used by get_latest_date inside the MAX aggregation.     *)
(* The Python type in which the aggregate reaches run_pipeline is kept     *)
(* beside the day number, in the variable driver.  Every query and every   *)
(* INSERT is a step of its own, so that other processes and the clock can  *)
(* act between any two of them.                                            *)
(***************************************************************************)
EXTENDS Integers, Sequences, FiniteSets, TLC

\* ------------------------------------------------------------------ bounds
MaxRuns == 2        \* runs of run_pipeline started in one behaviour
MaxItems == 2       \* length of the list a scrape function returns
MaxDay == 2         \* calendar days the wall clock passes through
MaxDeletes == 1     \* rows somebody deletes from the table

\* --------------------------------------------------------------- constants
NoDate == -1
BadDate == -2
Sentinel1900 == 0
NoKey == "<no key>"          \* metadata dict without that key (KeyError)
NoFilter == "<none>"         \* run_pipeline(country=None)
NoCountry == "-"
PyNone == "<None>"           \* Python's None / SQL NULL in a text column

PROGRAM_ID == 1

\* What pandas holds in result.iloc[0]['latest_date'] for a value that is not
\* NULL: the database decides the column's type and the driver maps it to a
\* str ('YYYY-MM-DD'), a datetime.date or a datetime.datetime.
DriverTypes == {"str", "date", "datetime"}

\* The keys of SCRAPE_FUNCTIONS, in dict order (a subset of the seven).
ScrapeKeys == <<"Nigeria", "Canada", "Belgium">>
Countries == {ScrapeKeys[i] : i \in 1..Len(ScrapeKeys)}

\* The keys of Config.COUNTRIES ('belgium' is lower case there).
ConfigKeys == {"Nigeria", "Canada", "belgium"}

\* Config.COUNTRIES[key]['agency_id']
AgencyId == [k \in ConfigKeys |->
    CASE k = "Nigeria" -> "NAFDAC"
      [] k = "Canada"  -> "CA-HEALTH"
      [] k = "belgium" -> "AFMPS"]

\* Config.COUNTRIES[key]['starting_docket_id']
StartingDocketId == [k \in ConfigKeys |->
    CASE k = "Nigeria" -> 1001
      [] k = "Canada"  -> 6001
      [] k = "belgium" -> 7001]

\* str.lower() on the names that occur.
Lower(s) ==
    CASE s \in {"Nigeria", "nigeria", "NIGERIA"} -> "nigeria"
      [] s \in {"Canada", "canada", "CANADA"}    -> "canada"
      [] s \in {"Belgium", "belgium", "BELGIUM"} -> "belgium"
      [] OTHER -> s

\* Config.get_country_config: case-insensitive lookup, "" for the empty dict.
get_country_config(country) ==
    IF \E k \in ConfigKeys : Lower(k) = Lower(country)
    THEN CHOOSE k \in ConfigKeys : Lower(k) = Lower(country)
    ELSE ""

\* Variant: the filter is compared with the keys as it is written.
SelectCountriesExact(arg) ==
    IF \E i \in 1..Len(ScrapeKeys) : ScrapeKeys[i] = arg
    THEN <<arg>>
    ELSE ScrapeKeys

\* run_pipeline lines 41-55: the list of countries a call processes.
SelectCountries(arg) ==
    IF arg # NoFilter /\ \E i \in 1..Len(ScrapeKeys) : Lower(ScrapeKeys[i]) = Lower(arg)
    THEN LET i == CHOOSE j \in 1..Len(ScrapeKeys) :
                      /\ Lower(ScrapeKeys[j]) = Lower(arg)
                      /\ \A h \in 1..(j-1) : Lower(ScrapeKeys[h]) # Lower(arg)
         IN <<ScrapeKeys[i]>>
    ELSE ScrapeKeys

\* ------------------------------------------------------------------ inputs
FilterArgs == {NoFilter, "nigeria", "CANADA", "Mars"}

Titles == {NoKey, "", "A", "B"}
Urls == {"", "u"}
DayVals == 1..(MaxDay + 1)

\* One (metadata, file_path) pair of a scrape function's list.  has_file says
\* that file_path is a path and the file exists on disk.  A candidate that
\* cannot be fingerprinted (no title key, empty title or url) returns from
\* the handler before its dates are read, so those are drawn with null dates
\* and one title.  A modified date that parses is the date compared, and
\* the other two reach no column of the row, so such a candidate is drawn
\* without them.  publish_date and public_date are keys run_pipeline never
\* reads.  description is the text process_pdf composes from the topic and
\* the page address, which is never empty.
Candidates ==
    { c \in [title : Titles, url : Urls, description : {"d"},
             modified_date : {NoDate, BadDate} \cup DayVals,
             posted_date : {NoDate, 2},
             effective_date : {NoDate, 1},
             publish_date : {NoDate}, public_date : {NoDate},
             has_file : BOOLEAN] :
        /\ (c.title \in {NoKey, ""} \/ c.url = "") =>
              /\ c.modified_date = NoDate
              /\ c.posted_date = NoDate
              /\ c.effective_date = NoDate
        /\ c.modified_date \in DayVals =>
              /\ c.posted_date = NoDate
              /\ c.effective_date = NoDate
        /\ c.url = "" => c.title = "A" }

\* An entry of data_list whose contents the model draws when the handler
\* reads it (the list is materialized by the scrape function before the loop,
\* and nothing in the loop can change it).
Pending == [title |-> "<pending>", url |-> "", description |-> "",
            modified_date |-> NoDate,
            posted_date |-> NoDate, effective_date |-> NoDate,
            publish_date |-> NoDate, public_date |-> NoDate, has_file |-> FALSE]

\* The candidates with a modified date of day 1 or none and no other date.
PlainCandidates ==
    { c \in Candidates : /\ c.modified_date \in {NoDate, 1}
                         /\ c.posted_date = NoDate
                         /\ c.effective_date = NoDate }

\* What a scrape function can do.  scrape_belgium has no return statement
\* with a value; the others return a list.  Any of them may raise.
ScrapeOutcomes(country) ==
    IF country = "Belgium" THEN {"none", "raised"} ELSE {"list", "raised"}

\* Fault kinds of the environment.
BaseFaults == {"insert", "remove"}
AllFaults == BaseFaults \cup {"query"}
Outcomes(kind, F) == IF kind \in F THEN BOOLEAN ELSE {TRUE}

\* ------------------------------------------------------------------- state
Procs == {1, 2}

VARIABLES
    store,      \* rows of international_documents, in insertion order
    today,      \* the wall clock's calendar day
    runs,       \* number of run_pipeline calls started so far
    run,        \* per orchestrator process: the locals of run_pipeline
    ever,       \* history: every successful insert, in order
    site,       \* what the scraped pages hold, when that is fixed for a behaviour
    disk,       \* the cache directory, and what the latest process_pdf call did
    driver      \* the Python type in which the database hands over a date

vars == <<store, today, runs, run, ever, site, disk, driver>>

NoItem == [kind |-> "NONE", cand |-> Pending, docket |-> 0, matched |-> FALSE,
           latest |-> NoDate, country |-> NoCountry, file_left |-> FALSE]

\* pc .. data_list are the locals of run_pipeline; the rest is history:
\* no         the number of this call of run_pipeline
\* selected   the countries this call set out to process
\* disc       per country, what its scrape function did in this call
\* found      length of the list the current country's scrape returned
\* kinds      how the handling of each of its items so far ended, in order
\* complete   no country of this call was left with items unhandled
\* last       how the handling of the latest item of this country ended
\* now        the day datetime.now() gave for the insert_data being built
\* cut        the numbers of this process's calls that were interrupted
IdleRun == [pc |-> "idle", no |-> 0, countries |-> <<>>, country |-> NoCountry,
            next_docket_id |-> 0, latest_date |-> NoDate, data_list |-> <<>>,
            now |-> NoDate,
            selected |-> <<>>,
            disc |-> [c \in Countries |-> "pending"],
            found |-> 0,
            kinds |-> <<>>,
            complete |-> TRUE,
            last |-> NoItem,
            cut |-> {}]

\* The pages change freely: each scrape returns whatever list it returns.
\* stepwise: the scrape is followed link by link, through process_pdf.
LiveSite == [fixed |-> FALSE, stepwise |-> FALSE,
             lists |-> [c \in Countries |-> <<>>]]

\* No process_pdf call yet.
NoCall == [url |-> "", net |-> "none", ret |-> "none", in_store |-> FALSE,
           had_file |-> FALSE, fetched |-> FALSE, file_after |-> FALSE,
           appended |-> FALSE]

\* An empty cache directory.
NoDisk == [files |-> {}, got |-> NoCall]

Init ==
    /\ store = <<>>
    /\ today = 1
    /\ runs = 0
    /\ run = [p \in Procs |-> IdleRun]
    /\ ever = <<>>
    /\ site = LiveSite
    /\ disk = NoDisk
    /\ driver \in DriverTypes

\* ------------------------------------------------------------ DatabaseOps
\* dict.get(key), None for a key the dict lacks.
DictGet(d, key) == IF key \in DOMAIN d THEN d[key] ELSE NoDate

\* dict.get(key, default): the default only for a key the dict lacks, not for
\* a key that holds None.
GetOr(d, key, default) == IF key \in DOMAIN d THEN d[key] ELSE default

\* md5((title + url).encode()).hexdigest(): the digest stands for its input.
doc_hash(title, url) == title \o url

ScopeRows(rows, country) ==
    SelectSeq(rows, LAMBDA r : r.program_id = PROGRAM_ID /\ r.country = country)

\* SQL MAX over a non-empty column of integers.
SqlMax(S) == CHOOSE m \in S : \A x \in S : x <= m

\* get_last_docket_id: MAX(docket_id) of the scope, None (0) for an empty
\* scope or a failed query.
get_last_docket_id(rows, country, ok) ==
    LET scope == ScopeRows(rows, country)
    IN IF ok /\ scope # <<>> THEN SqlMax({scope[i].docket_id : i \in 1..Len(scope)}) ELSE 0

IfNull(d, dflt) == IF d = NoDate THEN dflt ELSE d
Greatest3(a, b, c) ==
    LET ab == IF a > b THEN a ELSE b IN IF ab > c THEN ab ELSE c

\* Line 106, `latest != datetime(1900, 1, 1)`: a str and a datetime.date are
\* unequal to every datetime.datetime, so only a value of that type can be
\* found equal to the sentinel.
IsSentinel(type, latest) == type = "datetime" /\ latest = Sentinel1900

\* get_latest_date: MAX(GREATEST(IFNULL(..,'1900-01-01') x 3)) of the scope,
\* in the type the driver hands it over; None for no rows (the MAX is NULL),
\* for a failed query, and for the sentinel when it comes as a
\* datetime.datetime.  Every other value is true for `latest and`.
get_latest_date(rows, country, ok, type) ==
    LET scope == ScopeRows(rows, country)
        latest == IF scope = <<>> THEN NoDate
                  ELSE SqlMax({Greatest3(IfNull(scope[i].modified_date, Sentinel1900),
                                            IfNull(scope[i].effective_date, Sentinel1900),
                                            IfNull(scope[i].publish_date, Sentinel1900)) :
                                      i \in 1..Len(scope)})
    IN IF ok /\ latest # NoDate /\ ~IsSentinel(type, latest) THEN latest ELSE NoDate

\* check_duplicate without the test for an empty title or url.
check_duplicateNoGuard(rows, title, url, ok) ==
    IF ok THEN \E i \in 1..Len(rows) : rows[i].doc_hash = doc_hash(title, url)
    ELSE FALSE

\* check_duplicate comparing against the hash of url + title.
check_duplicateSwapped(rows, title, url, ok) ==
    IF title = "" \/ url = "" THEN TRUE
    ELSE IF ok THEN \E i \in 1..Len(rows) : rows[i].doc_hash = doc_hash(url, title)
    ELSE FALSE

\* check_duplicate: True for an empty title or url, else whether any row
\* (of any scope) has the hash; False when the query fails.
check_duplicate(rows, title, url, ok) ==
    IF title = "" \/ url = "" THEN TRUE
    ELSE IF ok THEN \E i \in 1..Len(rows) : rows[i].doc_hash = doc_hash(title, url)
    ELSE FALSE

\* insert_metadata: the row written for the dict built by run_pipeline.
\* The three provenance columns and the abstract are read with
\* dict.get(key, ''): abstract from the key 'description', which the dict
\* lacks.  publish_date is read from the key 'posted_date', which the dict
\* lacks too; effective_date is deleted from the dict and is no column of the
\* INSERT, so the column keeps its default NULL.
insert_metadata(insert_data) ==
    [country |-> insert_data.country,
     program_id |-> insert_data.program_id,
     docket_id |-> insert_data.docket_id,
     doc_hash |-> doc_hash(insert_data.title, insert_data.url),
     document_type |-> GetOr(insert_data, "document_type", ""),
     agency_id |-> GetOr(insert_data, "agency_id", ""),
     reference |-> GetOr(insert_data, "reference", ""),
     title |-> insert_data.title,
     url |-> insert_data.url,
     abstract |-> GetOr(insert_data, "description", ""),
     modified_date |-> insert_data.modified_date,
     publish_date |-> DictGet(insert_data, "posted_date"),
     effective_date |-> NoDate]

\* ------------------------------------------------------------------ utils
\* normalize_date: None for an empty or unparseable input, else the
\* calendar date.
normalize_date(date_input) ==
    IF date_input \in {NoDate, BadDate} THEN NoDate ELSE date_input

\* The links of a page: their text and href.  "#" is a text of characters
\* process_pdf strips; "h" is the address of an HTML page, "u" of a PDF.
LinkTexts == {"A", "#"}
LinkUrls == {"u", "h"}
Topic == "Guidelines"
IsHtml(url) == url = "h"

\* process_pdf line 113: only alphanumerics and a few others are kept.
Sanitize(text) == IF text = "#" THEN "" ELSE text

\* process_pdf lines 112-113: link.text.strip() or topic or "Untitled".
LinkTitle(text) == Sanitize(IF text # "" THEN text ELSE Topic)

\* process_pdf lines 119-133: the metadata dict.  It has no key
\* 'posted_date'.
Metadata(text, url, effective_date, modified_date, publish_date, posted_date) ==
    [title |-> LinkTitle(text),
     url |-> url,
     description |-> "d",
     publish_date |-> normalize_date(publish_date),
     modified_date |-> normalize_date(modified_date),
     effective_date |-> normalize_date(effective_date),
     public_date |-> IF normalize_date(posted_date) # NoDate
                     THEN normalize_date(posted_date)
                     ELSE normalize_date(publish_date)]

\* What run_pipeline reads of an item (metadata, file_path) of data_list:
\* metadata['title'], metadata['url'] and the three .get() of lines 108-110.
ReadItem(metadata, has_file) ==
    [title |-> metadata.title,
     url |-> metadata.url,
     description |-> GetOr(metadata, "description", ""),
     modified_date |-> DictGet(metadata, "modified_date"),
     posted_date |-> DictGet(metadata, "posted_date"),
     effective_date |-> DictGet(metadata, "effective_date"),
     publish_date |-> DictGet(metadata, "publish_date"),
     public_date |-> DictGet(metadata, "public_date"),
     has_file |-> has_file]

\* is_already_downloaded: ldb.run_query returns the rows as tuples, or
\* False; result[0]['cnt'] raises on either and the except returns False.
is_already_downloaded(url) == FALSE

\* How a download can go: done, failed before anything was written, or
\* failed while the file was being written.
NetOutcomes == {"ok", "failed", "partial"}

\* process_pdf lines 149-178: what is returned ("pair": metadata and path,
\* "meta": metadata and None, "none": None and None), the files on disk
\* afterwards, and whether the network was used.
Retrieve(url, files, net) ==
    IF is_already_downloaded(url) \/ url \in files
    THEN [ret |-> "pair", files |-> files, fetched |-> FALSE]
    ELSE [ret |-> IF net = "ok" THEN "pair"
                  ELSE IF IsHtml(url) THEN "meta" ELSE "none",
          files |-> IF net = "failed" THEN files ELSE files \cup {url},
          fetched |-> TRUE]

\* ------------------------------------------------------------ run_pipeline
\* Variant: the default is the starting value itself.
LastDocketIdNoMinus(queried, starting_docket_id) ==
    IF queried = 0 THEN starting_docket_id ELSE queried

\* Line 69: `get_last_docket_id(..) or (starting_docket_id - 1)`.
LastDocketId(queried, starting_docket_id) ==
    IF queried = 0 THEN starting_docket_id - 1 ELSE queried

\* Line 70.
FirstDocketId(last_docket_id) == last_docket_id + 1

\* Lines 74-81: the list the loop iterates; [] when the scrape function
\* raised or returned None.
ScrapeData(outcome, scraped) ==
    IF outcome = "list" THEN scraped ELSE <<>>

\* Lines 113-121: the first of modified, posted, effective that is non-empty
\* and parses; None when there is none.
DateToCheck(c) ==
    LET ds == <<c.modified_date, c.posted_date, c.effective_date>>
        usable(i) == ds[i] # NoDate /\ ds[i] # BadDate
    IN IF \E i \in 1..3 : usable(i)
       THEN ds[CHOOSE i \in 1..3 : usable(i) /\ \A j \in 1..(i-1) : ~usable(j)]
       ELSE NoDate

\* Line 123, when `date_to_check <= latest_date` is evaluated: date_to_check
\* is a datetime.date (line 117), and Python orders a datetime.date against
\* another datetime.date only; against a str or a datetime.datetime the
\* comparison raises TypeError.
CompareRaises(type, latest_date, date_to_check) ==
    latest_date # NoDate /\ date_to_check # NoDate /\ type # "date"

\* Variant: a missing date_to_check is not tested for.
IsStaleNullUnchecked(latest_date, date_to_check) ==
    latest_date # NoDate /\ date_to_check <= latest_date

\* Variant: a missing latest_date counts as later than every date.
IsStaleLatestUnchecked(latest_date, date_to_check) ==
    date_to_check # NoDate /\ (latest_date = NoDate \/ date_to_check <= latest_date)

\* Line 123, for the cases in which it does not raise.
IsStale(latest_date, date_to_check) ==
    latest_date # NoDate /\ date_to_check # NoDate /\ date_to_check <= latest_date

\* Lines 136-154: the dict handed to insert_metadata.  The literal has the
\* key 'modified_date' twice; the second, the time of the insert, is the one
\* the dict keeps.
InsertData(country, next_docket_id, c, now) ==
    [country |-> country,
     docket_id |-> next_docket_id,
     document_type |-> "Guidelines",
     agency_id |-> GetOr(AgencyId, get_country_config(country), ""),
     reference |-> PyNone,
     title |-> c.title,
     url |-> c.url,
     abstract |-> c.description,
     program_id |-> PROGRAM_ID,
     publish_date |-> c.posted_date,
     modified_date |-> now,
     effective_date |-> c.effective_date]

\* Variant: the counter is not advanced.
AdvanceDocketNever(next_docket_id, success) == next_docket_id

\* Variant: the counter is advanced for every item.
AdvanceDocketAlways(next_docket_id, success) == next_docket_id + 1

\* Lines 156-166: next_docket_id after insert_metadata returned `success`.
AdvanceDocket(next_docket_id, success) ==
    IF success THEN next_docket_id + 1 ELSE next_docket_id

\* Variant: an exception ends the loop over the list.
RestOfListAbort(data_list, kind) ==
    IF kind \in {"ERROR", "INSERT_FAILED"} THEN <<>> ELSE Tail(data_list)

\* Lines 88, 105, 131, 176: whatever the handling of an item ended in, the
\* loop goes on with the rest of the list.
RestOfList(data_list, kind) == Tail(data_list)

\* Variant: a failed discovery ends the call.
RestOfCountriesAbort(countries, outcome) ==
    IF outcome \in {"raised", "none"} THEN <<>> ELSE Tail(countries)

\* Lines 57, 61, 66: the for loop goes on with the next country.
RestOfCountries(countries, outcome) == Tail(countries)

\* Variant: no path removes the file.
FileLeftNeverRemoved(has_file, attempted, rm_ok) == has_file

\* Lines 99-104 and alike: whether the file is still there afterwards.
FileLeft(has_file, attempted, rm_ok) == has_file /\ ~(attempted /\ rm_ok)

Matched(rows, c) ==
    /\ c.title # NoKey
    /\ \E i \in 1..Len(rows) : rows[i].doc_hash = doc_hash(c.title, c.url)

StartRun(p, Args) ==
    /\ run[p].pc \in {"idle", "done"}
    /\ runs < MaxRuns
    /\ \E arg \in Args :
         run' = [run EXCEPT ![p] =
                    [IdleRun EXCEPT !.pc = "source", !.no = runs + 1,
                                    !.country = arg,
                                    !.cut = run[p].cut,
                                    !.countries = SelectCountries(arg),
                                    !.selected = SelectCountries(arg)]]
    /\ runs' = runs + 1
    /\ UNCHANGED <<store, today, ever, site, disk, driver>>

\* Variant: a source is not started while another process is inside one.
StartSourceLocked(p, F) ==
    /\ \A q \in Procs \ {p} : run[q].pc \in {"idle", "source", "done"}
    /\ run[p].pc = "source"
    /\ run[p].countries # <<>>
    /\ LET country == Head(run[p].countries)
           cfg == get_country_config(country)
       IN IF cfg = ""
          THEN run' = [run EXCEPT ![p].countries = RestOfCountries(@, "noconfig"),
                                  ![p].disc[country] = "noconfig"]
          ELSE \E q1 \in Outcomes("query", F) :
                 LET starting_docket_id == StartingDocketId[cfg]
                     last_docket_id ==
                         LastDocketId(get_last_docket_id(store, country, q1),
                                      starting_docket_id)
                 IN run' = [run EXCEPT
                         ![p].pc = "cutoff",
                         ![p].country = country,
                         ![p].next_docket_id = FirstDocketId(last_docket_id),
                         ![p].kinds = <<>>,
                         ![p].last = NoItem]
    /\ UNCHANGED <<store, today, runs, ever, site, disk, driver>>

\* Lines 57-70: the next country of the for loop, its configuration and the
\* query of get_last_docket_id.
StartSource(p, F) ==
    /\ run[p].pc = "source"
    /\ run[p].countries # <<>>
    /\ LET country == Head(run[p].countries)
           cfg == get_country_config(country)
       IN IF cfg = ""
          THEN run' = [run EXCEPT ![p].countries = RestOfCountries(@, "noconfig"),
                                  ![p].disc[country] = "noconfig"]
          ELSE \E q1 \in Outcomes("query", F) :
                 LET starting_docket_id == StartingDocketId[cfg]
                     last_docket_id ==
                         LastDocketId(get_last_docket_id(store, country, q1),
                                      starting_docket_id)
                 IN run' = [run EXCEPT
                         ![p].pc = "cutoff",
                         ![p].country = country,
                         ![p].next_docket_id = FirstDocketId(last_docket_id),
                         ![p].kinds = <<>>,
                         ![p].last = NoItem]
    /\ UNCHANGED <<store, today, runs, ever, site, disk, driver>>

\* Line 72: the query of get_latest_date, on a connection of its own.
ReadLatestDate(p, F) ==
    /\ run[p].pc = "cutoff"
    /\ \E q2 \in Outcomes("query", F) :
         run' = [run EXCEPT
                    ![p].pc = "fetch",
                    ![p].latest_date = get_latest_date(store, run[p].country, q2, driver)]
    /\ UNCHANGED <<store, today, runs, ever, site, disk, driver>>

\* Whether the loop over the links can raise after process_pdf was called
\* for some of them: scrape_belgium's loop has statements outside any try
\* (belgium.py 29-51); scrape_nigeria's has none that raises and
\* scrape_canada's is in a try of its own.
RaisesAmongLinks(country) == country = "Belgium"

\* Lines 74-81: the call of the country's scrape function.  Where the
\* scrape is followed link by link, the function is entered here, with the
\* n links still to be handed to process_pdf before it returns or raises:
\* scrape_belgium too calls process_pdf for every link before it returns
\* nothing.
Scrape(p) ==
    /\ run[p].pc = "fetch"
    /\ \E outcome \in ScrapeOutcomes(run[p].country), n \in 0..MaxItems :
         LET country == run[p].country
             links == [i \in 1..n |-> Pending]
             scraped == IF site.fixed THEN site.lists[country] ELSE links
             data_list == IF site.stepwise
                          THEN scraped
                          ELSE ScrapeData(outcome, scraped)
         IN /\ (site.fixed => n = 0)
            /\ (outcome # "list" /\ ~site.stepwise => n = 0)
            /\ (outcome = "raised" /\ ~RaisesAmongLinks(country) => n = 0)
            /\ (site.fixed => outcome # "raised")
            /\ run' = [run EXCEPT
                         ![p].pc = IF site.stepwise THEN "scrape" ELSE "items",
                         ![p].data_list = data_list,
                         ![p].disc[country] = outcome,
                         ![p].found = Len(ScrapeData(outcome, scraped))]
    /\ UNCHANGED <<store, today, runs, ever, site, disk, driver>>

\* What the adapters hand to process_pdf for a link: Nigeria and Canada no
\* date, Belgium an effective date, Thailand and Ireland an effective and a
\* publish date, South Africa a posted date.
DateArgs ==
    {[effective_date |-> e, modified_date |-> m, publish_date |-> b, posted_date |-> o] :
        e \in {NoDate, BadDate, 1}, m \in {NoDate, 1}, b \in {NoDate, 1}, o \in {NoDate, 1}}

Links ==
    {[text |-> t, href |-> u, dates |-> d] : t \in LinkTexts, u \in LinkUrls, d \in DateArgs}

\* The adapters' `if file_path:` and `if metadata and file_path:`;
\* scrape_belgium drops what process_pdf returns.
AdapterKeeps(country, ret) == country # "Belgium" /\ ret = "pair"

\* One turn of a scrape function's loop over the links of its page: the
\* call of process_pdf and the append to data_list.
ScrapeLink(p, Inputs) ==
    /\ run[p].pc = "scrape"
    /\ \E i \in 1..Len(run[p].data_list) :
         /\ run[p].data_list[i] = Pending
         /\ \A j \in 1..(i - 1) : run[p].data_list[j] # Pending
         /\ \E link \in Inputs, net \in NetOutcomes :
              LET metadata == Metadata(link.text, link.href, link.dates.effective_date,
                                       link.dates.modified_date, link.dates.publish_date,
                                       link.dates.posted_date)
                  r == Retrieve(link.href, disk.files, net)
                  list == run[p].data_list
              IN /\ (~r.fetched => net = "ok")
                 /\ run' = [run EXCEPT ![p].data_list =
                        IF AdapterKeeps(run[p].country, r.ret)
                        THEN [list EXCEPT ![i] = ReadItem(metadata, TRUE)]
                        ELSE [j \in 1..(Len(list) - 1) |->
                                 IF j < i THEN list[j] ELSE list[j + 1]]]
                 /\ disk' = [files |-> r.files,
                             got |-> [url |-> link.href, net |-> net, ret |-> r.ret,
                                      in_store |-> \E k \in 1..Len(store) :
                                                      store[k].url = link.href,
                                      had_file |-> link.href \in disk.files,
                                      fetched |-> r.fetched,
                                      file_after |-> link.href \in r.files,
                                      appended |-> AdapterKeeps(run[p].country, r.ret)]]
    /\ UNCHANGED <<store, today, runs, ever, site, driver>>

\* The scrape function returns its list or nothing, or raises (lines 75-81).
EndScrape(p) ==
    /\ run[p].pc = "scrape"
    /\ \A i \in 1..Len(run[p].data_list) : run[p].data_list[i] # Pending
    /\ LET data_list == ScrapeData(run[p].disc[run[p].country], run[p].data_list)
       IN run' = [run EXCEPT ![p].pc = "items",
                             ![p].data_list = data_list,
                             ![p].found = Len(data_list)]
    /\ UNCHANGED <<store, today, runs, ever, site, disk, driver>>

\* `file_path and os.path.exists(file_path)`.
HasFile(c) == c.has_file /\ (site.stepwise => c.url \in disk.files)

\* Line 88: the item (metadata, file_path) the loop takes from the list, and
\* whether its file is in the cache at that moment.  The file of an item
\* can be gone with no fault at all: process_pdf names the cache file after
\* the basename of the address (utils.py 141-146), so two items can share
\* one file, and handling the first removes it.  Where the scrape is
\* followed link by link the cache directory itself tells.  Every adapter
\* appends an item only with its file_path set.
Resolve(entry, Cands) ==
    LET items == IF entry = Pending THEN {c \in Cands : c.has_file} ELSE {entry}
    IN IF site.stepwise
       THEN items
       ELSE {[c EXCEPT !.has_file = b] : c \in items, b \in BOOLEAN}

\* Variant: the file is removed before the counter is advanced and a
\* failing removal skips the increment.
HandledRemoveFirst(p, c, kind, docket, file_left) ==
    /\ run' = [run EXCEPT
          ![p].pc = "items",
          ![p].now = NoDate,
          ![p].data_list = RestOfList(@, kind),
          ![p].kinds = Append(@, kind),
          ![p].next_docket_id = AdvanceDocket(@, kind = "PERSISTED" /\ ~file_left),
          ![p].last = [kind |-> kind, cand |-> c, docket |-> docket,
                       matched |-> Matched(store, c),
                       latest |-> run[p].latest_date,
                       country |-> run[p].country, file_left |-> file_left]]
    /\ disk' = [disk EXCEPT !.files = IF file_left THEN @ ELSE @ \ {c.url}]

\* The bookkeeping common to every way the handling of an item ends: the
\* loop is at the next item.
Handled(p, c, kind, docket, file_left) ==
    /\ run' = [run EXCEPT
          ![p].pc = "items",
          ![p].now = NoDate,
          ![p].data_list = RestOfList(@, kind),
          ![p].kinds = Append(@, kind),
          ![p].next_docket_id = AdvanceDocket(@, kind = "PERSISTED"),
          ![p].last = [kind |-> kind, cand |-> c, docket |-> docket,
                       matched |-> Matched(store, c),
                       latest |-> run[p].latest_date,
                       country |-> run[p].country, file_left |-> file_left]]
    /\ disk' = [disk EXCEPT !.files = IF file_left THEN @ ELSE @ \ {c.url}]

\* The loop of line 88 is at an item it has not looked at yet.
AtItem(p) == run[p].pc = "items" /\ run[p].data_list # <<>>

\* check_duplicate has answered False for the item: lines 107-166 are next.
AtNew(p) == run[p].pc = "new"

\* Lines 168-176: metadata['title'] raises KeyError.
ItemError(p, F, Cands) ==
    /\ AtItem(p)
    /\ \E c \in Resolve(Head(run[p].data_list), Cands), rm_ok \in Outcomes("remove", F) :
         /\ c.title = NoKey
         /\ Handled(p, c, "ERROR", 0, FileLeft(HasFile(c), TRUE, rm_ok))
    /\ UNCHANGED <<store, today, runs, ever, site, driver>>

\* Lines 97-105: check_duplicate answers True.
SkipDuplicate(p, F, Cands) ==
    /\ AtItem(p)
    /\ \E c \in Resolve(Head(run[p].data_list), Cands), dq \in Outcomes("query", F),
          rm_ok \in Outcomes("remove", F) :
         /\ c.title # NoKey
         /\ check_duplicate(store, c.title, c.url, dq)
         /\ Handled(p, c, "ALREADY_SEEN", 0, FileLeft(HasFile(c), TRUE, rm_ok))
    /\ UNCHANGED <<store, today, runs, ever, site, driver>>

\* Variant: the item goes on whatever the table holds.
NotDuplicateUnasked(p, F, Cands) ==
    /\ AtItem(p)
    /\ \E c \in Resolve(Head(run[p].data_list), Cands), dq \in Outcomes("query", F) :
         /\ c.title # NoKey
         /\ c.title # "" /\ c.url # ""
         /\ run' = [run EXCEPT ![p].pc = "new",
                               ![p].data_list = <<c>> \o Tail(@)]
    /\ UNCHANGED <<store, today, runs, ever, site, disk, driver>>

\* Line 97: check_duplicate answers False.  Its query has come back; the
\* INSERT of line 156 is another round trip, on another connection.
NotDuplicate(p, F, Cands) ==
    /\ AtItem(p)
    /\ \E c \in Resolve(Head(run[p].data_list), Cands), dq \in Outcomes("query", F) :
         /\ c.title # NoKey
         /\ ~check_duplicate(store, c.title, c.url, dq)
         /\ run' = [run EXCEPT ![p].pc = "new",
                               ![p].data_list = <<c>> \o Tail(@)]
    /\ UNCHANGED <<store, today, runs, ever, site, disk, driver>>

\* Lines 107-123, 168-176: the comparison of line 123 raises TypeError.
CompareError(p, F) ==
    /\ AtNew(p)
    /\ \E rm_ok \in Outcomes("remove", F) :
         LET c == Head(run[p].data_list)
         IN /\ CompareRaises(driver, run[p].latest_date, DateToCheck(c))
            /\ Handled(p, c, "ERROR", 0, FileLeft(HasFile(c), TRUE, rm_ok))
    /\ UNCHANGED <<store, today, runs, ever, site, driver>>

\* Lines 107-131.
SkipStale(p, F) ==
    /\ AtNew(p)
    /\ \E rm_ok \in Outcomes("remove", F) :
         LET c == Head(run[p].data_list)
         IN /\ ~CompareRaises(driver, run[p].latest_date, DateToCheck(c))
            /\ IsStale(run[p].latest_date, DateToCheck(c))
            /\ Handled(p, c, "STALE", 0, FileLeft(HasFile(c), TRUE, rm_ok))
    /\ UNCHANGED <<store, today, runs, ever, site, driver>>

\* Lines 107-154: the item is neither stale nor does the comparison raise;
\* insert_data is built, and with it the clock is read.  The INSERT of line
\* 156 is a later step: midnight may pass in between.
BuildInsertData(p) ==
    /\ AtNew(p)
    /\ LET c == Head(run[p].data_list)
       IN /\ ~CompareRaises(driver, run[p].latest_date, DateToCheck(c))
          /\ ~IsStale(run[p].latest_date, DateToCheck(c))
    /\ run' = [run EXCEPT ![p].pc = "insert", ![p].now = today]
    /\ UNCHANGED <<store, today, runs, ever, site, disk, driver>>

\* insert_data is built: the call of insert_metadata is next.
AtInsert(p) == run[p].pc = "insert"

\* Lines 156-164: insert_metadata returned True.
Persist(p, F) ==
    /\ AtInsert(p)
    /\ \E rm_ok \in Outcomes("remove", F) :
         LET c == Head(run[p].data_list)
             row == insert_metadata(
                        InsertData(run[p].country, run[p].next_docket_id, c, run[p].now))
         IN /\ store' = Append(store, row)
            /\ ever' = Append(ever, [country |-> row.country,
                                     docket_id |-> row.docket_id,
                                     doc_hash |-> row.doc_hash,
                                     run |-> run[p].no, proc |-> p])
            /\ Handled(p, c, "PERSISTED", run[p].next_docket_id,
                       FileLeft(HasFile(c), TRUE, rm_ok))
    /\ UNCHANGED <<today, runs, site, driver>>

\* Variant: the file is removed on this path too.
InsertFailedCleans(p, F) ==
    /\ AtInsert(p)
    /\ "insert" \in F
    /\ LET c == Head(run[p].data_list)
       IN Handled(p, c, "INSERT_FAILED", run[p].next_docket_id,
                     FileLeft(HasFile(c), TRUE, TRUE))
    /\ UNCHANGED <<store, today, runs, ever, site, driver>>

\* Lines 156, 165-166: insert_metadata returned False.
InsertFailed(p, F) ==
    /\ AtInsert(p)
    /\ "insert" \in F
    /\ LET c == Head(run[p].data_list)
       IN Handled(p, c, "INSERT_FAILED", run[p].next_docket_id,
                     FileLeft(HasFile(c), FALSE, FALSE))
    /\ UNCHANGED <<store, today, runs, ever, site, driver>>

\* The inner loop is exhausted: on to the next country.
EndSource(p) ==
    /\ run[p].pc = "items"
    /\ run[p].data_list = <<>>
    /\ run' = [run EXCEPT ![p].pc = "source",
                          ![p].countries = RestOfCountries(@, run[p].disc[run[p].country]),
                          ![p].complete = @ /\ Len(run[p].kinds) = run[p].found,
                          ![p].country = NoCountry,
                          ![p].next_docket_id = 0,
                          ![p].latest_date = NoDate,
                          ![p].found = 0,
                          ![p].kinds = <<>>,
                          ![p].last = NoItem]
    /\ UNCHANGED <<store, today, runs, ever, site, disk, driver>>

\* The outer loop is exhausted: run_pipeline returns.
EndRun(p) ==
    /\ run[p].pc = "source"
    /\ run[p].countries = <<>>
    /\ run' = [run EXCEPT ![p].pc = "done"]
    /\ UNCHANGED <<store, today, runs, ever, site, disk, driver>>

\* Midnight passes, whatever the calls of run_pipeline are doing: lines
\* 152-153 read the clock anew for every insert.
Tick ==
    /\ today < MaxDay
    /\ today' = today + 1
    /\ UNCHANGED <<store, runs, run, ever, site, disk, driver>>

\* Variant: the inserts of the interrupted call are undone.
InterruptUndoes(p) ==
    /\ run[p].pc \notin {"idle", "done"}
    /\ run' = [run EXCEPT ![p] = [IdleRun EXCEPT !.cut = run[p].cut \cup {run[p].no}]]
    /\ LET mine == SelectSeq(ever, LAMBDA e : e.run = run[p].no /\ e.proc = p)
       IN store' = SubSeq(store, 1, Len(store) - Len(mine))
    /\ UNCHANGED <<today, runs, ever, site, disk, driver>>

\* The process is stopped somewhere inside run_pipeline: its locals are
\* gone.  Every insert was committed by run_query_insert_update when it was
\* made, and the files written so far stay where they are.
Interrupt(p) ==
    /\ run[p].pc \notin {"idle", "done"}
    /\ run' = [run EXCEPT ![p] = [IdleRun EXCEPT !.cut = run[p].cut \cup {run[p].no}]]
    /\ UNCHANGED <<store, today, runs, ever, site, disk, driver>>

\* The steps of run_pipeline while the store accepts every insert.
Working(p, F, Args, Cands) ==
    \/ StartRun(p, Args)
    \/ StartSource(p, F)
    \/ ReadLatestDate(p, F)
    \/ Scrape(p)
    \/ ItemError(p, F, Cands)
    \/ SkipDuplicate(p, F, Cands)
    \/ NotDuplicate(p, F, Cands)
    \/ CompareError(p, F)
    \/ SkipStale(p, F)
    \/ BuildInsertData(p)
    \/ Persist(p, F)
    \/ EndSource(p)
    \/ EndRun(p)

Step(p, F, Args, Cands) ==
    \/ Working(p, F, Args, Cands)
    \/ InsertFailed(p, F)

\* The candidates whose only date, if any, is the modified date.
ModifiedCandidates ==
    { c \in Candidates : c.posted_date = NoDate /\ c.effective_date = NoDate }

\* One orchestrator; inserts and file removals may fail, store queries do not.
Next == Step(1, BaseFaults, FilterArgs, ModifiedCandidates) \/ Tick

Spec == Init /\ [][Next]_vars

\* The table as earlier calls may have left it: empty, or with the one row
\* that a call on day 1 persisted for its first new document.
SeedRow(country, title) ==
    insert_metadata(InsertData(country,
                               StartingDocketId[get_country_config(country)],
                               [title |-> title, url |-> "u", description |-> "d",
                                modified_date |-> NoDate,
                                posted_date |-> NoDate, effective_date |-> NoDate,
                                publish_date |-> NoDate, public_date |-> NoDate,
                                has_file |-> TRUE],
                               1))

SeedStores == {<<>>, <<SeedRow("Nigeria", "A")>>, <<SeedRow("Canada", "B")>>}

EverOf(rows) ==
    [i \in 1..Len(rows) |-> [country |-> rows[i].country,
                             docket_id |-> rows[i].docket_id,
                             doc_hash |-> rows[i].doc_hash,
                             run |-> 0, proc |-> 1]]

\* The last call of a behaviour, over such a table.
InitLastCall ==
    /\ store \in SeedStores
    /\ today \in 1..MaxDay
    /\ runs = MaxRuns - 1
    /\ run = [p \in Procs |-> IdleRun]
    /\ ever = EverOf(store)
    /\ site = LiveSite
    /\ disk = NoDisk
    /\ driver \in DriverTypes

\* One call of run_pipeline("nigeria") over items with every combination of
\* dates.
NextPayload == Step(1, BaseFaults, {"nigeria"}, Candidates) \/ Tick

SpecPayload == InitLastCall /\ [][NextPayload]_vars

\* One call with every failure the handlers provide for: store queries,
\* inserts and file removals that fail.
NextFaults == Step(1, AllFaults, FilterArgs, PlainCandidates)

SpecFaults == InitLastCall /\ [][NextFaults]_vars

\* Somebody deletes a row of the table between two calls of
\* run_pipeline("nigeria").
DeleteRow ==
    /\ \A p \in Procs : run[p].pc \in {"idle", "done"}
    /\ Len(ever) - Len(store) < MaxDeletes
    /\ \E i \in 1..Len(store) :
         store' = [j \in 1..(Len(store) - 1) |-> IF j < i THEN store[j] ELSE store[j + 1]]
    /\ UNCHANGED <<today, runs, run, ever, site, disk, driver>>

NextDelete == Step(1, BaseFaults, {"nigeria"}, PlainCandidates) \/ Tick \/ DeleteRow

SpecDelete == Init /\ [][NextDelete]_vars

\* The pages stay as they are: every call's scrape of a country returns the
\* same list.  scrape_belgium returns no list at all.
RerunCandidates == {c \in PlainCandidates : c.has_file}

ListsUpTo(n) ==
    UNION {[1..k -> RerunCandidates] : k \in 0..n}

FixedSites ==
    {[fixed |-> TRUE, stepwise |-> FALSE,
      lists |-> [c \in Countries |->
                    IF c = "Nigeria" THEN a ELSE IF c = "Canada" THEN b ELSE <<>>]] :
        a \in ListsUpTo(MaxItems), b \in ListsUpTo(MaxItems - 1)}

InitRerun ==
    /\ store \in SeedStores
    /\ today = 1
    /\ runs = 0
    /\ run = [p \in Procs |-> IdleRun]
    /\ ever = EverOf(store)
    /\ site \in FixedSites
    /\ disk = NoDisk
    /\ driver \in DriverTypes

\* run_pipeline() called again and again over unchanged pages, with a store
\* that answers every query and accepts every insert.
NextRerun == Working(1, {}, {NoFilter}, RerunCandidates) \/ Tick

SpecRerun == InitRerun /\ [][NextRerun]_vars

\* One call in which the scrape functions are followed link by link.
InitRetrieval ==
    /\ store \in SeedStores
    /\ today = 1
    /\ runs = MaxRuns - 1
    /\ run = [p \in Procs |-> IdleRun]
    /\ ever = EverOf(store)
    /\ site = [LiveSite EXCEPT !.stepwise = TRUE]
    /\ disk = NoDisk
    /\ driver \in DriverTypes

NextRetrieval ==
    \/ StartRun(1, {"nigeria", "CANADA", "belgium"})
    \/ StartSource(1, BaseFaults)
    \/ ReadLatestDate(1, BaseFaults)
    \/ Scrape(1)
    \/ ScrapeLink(1, Links)
    \/ EndScrape(1)
    \/ SkipDuplicate(1, BaseFaults, {})
    \/ NotDuplicate(1, BaseFaults, {})
    \/ CompareError(1, BaseFaults)
    \/ SkipStale(1, BaseFaults)
    \/ BuildInsertData(1)
    \/ Persist(1, BaseFaults)
    \/ InsertFailed(1, BaseFaults)
    \/ EndSource(1)
    \/ EndRun(1)

SpecRetrieval == InitRetrieval /\ [][NextRetrieval]_vars

\* Calls of run_pipeline("nigeria") or run_pipeline(), any of which may be
\* stopped at any point; the store answers every query.
NextInterrupt ==
    \/ Step(1, BaseFaults, {"nigeria", NoFilter}, PlainCandidates)
    \/ Interrupt(1)
    \/ Tick

SpecInterrupt == Init /\ [][NextInterrupt]_vars

\* A row of the table with any dates in its three date columns.
\* insert_metadata itself always writes modified_date and never the other
\* two; a row with other dates, or with none, is one that something else
\* wrote to international_documents.
DatedRow(country, title, docket_id, m, b, e) ==
    [SeedRow(country, title) EXCEPT !.docket_id = docket_id, !.modified_date = m,
                                    !.publish_date = b, !.effective_date = e]

RowDates == {NoDate} \cup 1..MaxDay

DatedStores ==
    LET start(c) == StartingDocketId[get_country_config(c)]
        first == {DatedRow(c, "A", start(c), m, b, e) :
                     c \in {"Nigeria", "Canada"}, m \in RowDates, b \in RowDates,
                     e \in RowDates}
        second(r) == {DatedRow("Nigeria", "B",
                               start("Nigeria") + (IF r.country = "Nigeria" THEN 1 ELSE 0),
                               m, b, e) :
                         m \in RowDates, b \in RowDates, e \in RowDates}
    IN {<<>>} \cup {<<r>> : r \in first}
              \cup UNION {{<<r, q>> : q \in second(r)} : r \in first}

InitDated ==
    /\ store \in DatedStores
    /\ today = MaxDay
    /\ runs = MaxRuns - 1
    /\ run = [p \in Procs |-> IdleRun]
    /\ ever = EverOf(store)
    /\ site = LiveSite
    /\ disk = NoDisk
    /\ driver \in DriverTypes

\* One call of run_pipeline("nigeria") over such a table; the store answers
\* every query and accepts every insert.
NextDated ==
    \/ StartRun(1, {"nigeria"})
    \/ StartSource(1, {})
    \/ ReadLatestDate(1, {})
    \/ Scrape(1)
    \/ SkipDuplicate(1, {}, RerunCandidates)
    \/ NotDuplicate(1, {}, RerunCandidates)
    \/ CompareError(1, {})
    \/ SkipStale(1, {})
    \/ BuildInsertData(1)
    \/ Persist(1, {})
    \/ EndSource(1)
    \/ EndRun(1)

SpecDated == InitDated /\ [][NextDated]_vars

\* Candidates that can be fingerprinted, with a file and with a modified
\* date or none.
DatedCandidates ==
    {c \in Candidates : /\ c.title \notin {NoKey, ""} /\ c.url # ""
                        /\ c.has_file
                        /\ c.modified_date # BadDate
                        /\ c.posted_date = NoDate
                        /\ c.effective_date = NoDate}

\* Pages on which scrape_nigeria finds up to MaxItems such candidates.
DatedSites ==
    {[fixed |-> TRUE, stepwise |-> FALSE,
      lists |-> [c \in Countries |-> IF c = "Nigeria" THEN a ELSE <<>>]] :
        a \in UNION {[1..k -> DatedCandidates] : k \in 0..MaxItems}}

\* The table holds nothing, or one row of an earlier call: a document that
\* is no longer on the pages, or one that may still be.
InitCutoff ==
    /\ store \in SeedStores \cup {<<SeedRow("Nigeria", "C")>>}
    /\ today = 1
    /\ runs = MaxRuns - 1
    /\ run = [p \in Procs |-> IdleRun]
    /\ ever = EverOf(store)
    /\ site \in DatedSites
    /\ disk = NoDisk
    /\ driver \in DriverTypes

\* One call of run_pipeline("nigeria") over such pages; the store answers
\* every query and accepts every insert.
NextCutoff ==
    \/ StartRun(1, {"nigeria"})
    \/ StartSource(1, {})
    \/ ReadLatestDate(1, {})
    \/ Scrape(1)
    \/ SkipDuplicate(1, {}, {})
    \/ NotDuplicate(1, {}, {})
    \/ CompareError(1, {})
    \/ SkipStale(1, {})
    \/ BuildInsertData(1)
    \/ Persist(1, {})
    \/ EndSource(1)
    \/ EndRun(1)

SpecCutoff == InitCutoff /\ [][NextCutoff]_vars

\* An empty table and pages that stay as they are.
InitRetry ==
    /\ store = <<>>
    /\ today = 1
    /\ runs = 0
    /\ run = [p \in Procs |-> IdleRun]
    /\ ever = <<>>
    /\ site \in DatedSites
    /\ disk = NoDisk
    /\ driver \in DriverTypes

\* run_pipeline("nigeria") called again and again over such pages; the
\* store answers every query, and any insert may fail.
NextRetry ==
    \/ StartRun(1, {"nigeria"})
    \/ StartSource(1, {"insert"})
    \/ ReadLatestDate(1, {"insert"})
    \/ Scrape(1)
    \/ SkipDuplicate(1, {"insert"}, {})
    \/ NotDuplicate(1, {"insert"}, {})
    \/ CompareError(1, {"insert"})
    \/ SkipStale(1, {"insert"})
    \/ BuildInsertData(1)
    \/ Persist(1, {"insert"})
    \/ InsertFailed(1, {"insert"})
    \/ EndSource(1)
    \/ EndRun(1)
    \/ Tick

SpecRetry == InitRetry /\ [][NextRetry]_vars

\* Candidates that can be fingerprinted, with a file, dated day 1 or not at
\* all.
ValidCandidates == {c \in DatedCandidates : c.modified_date \in {NoDate, 1}}

\* Two processes call run_pipeline("nigeria"), at any times: one after the
\* other or both at once.  The store answers every query and accepts every
\* insert.
NextTwo ==
    \E p \in Procs :
        \/ StartRun(p, {"nigeria"})
        \/ StartSource(p, {})
        \/ ReadLatestDate(p, {})
        \/ Scrape(p)
        \/ SkipDuplicate(p, {}, ValidCandidates)
        \/ NotDuplicate(p, {}, ValidCandidates)
        \/ CompareError(p, {})
        \/ SkipStale(p, {})
        \/ BuildInsertData(p)
        \/ Persist(p, {})
        \/ EndSource(p)
        \/ EndRun(p)

SpecTwo == Init /\ [][NextTwo]_vars

\* ================================================================= claims
NewKinds == {"PERSISTED", "INSERT_FAILED"}

\* A candidate the Dedup/Staleness Engine can fingerprint.
Valid(c) == c.title \notin {NoKey, ""} /\ c.url # ""

AllDatesNull(c) ==
    c.modified_date = NoDate /\ c.posted_date = NoDate /\ c.effective_date = NoDate

\* The docket_ids of a scope's rows, in the order of the store.
ScopeIds(country) ==
    LET scope == ScopeRows(store, country)
    IN [i \in 1..Len(scope) |-> scope[i].docket_id]

\* The docket_ids call number `no` persisted for `country`, in order.
RunIds(no, country) ==
    LET es == SelectSeq(ever, LAMBDA e : e.run = no /\ e.country = country)
    IN [i \in 1..Len(es) |-> es[i].docket_id]

\* C1: in every (program_id, country) scope the docket_ids of the persisted
\* records are strictly increasing in the order of persistence, so no two
\* records of a scope share a docket_id.
C1_MonotonicIdentifiers ==
    \A c \in Countries :
        LET ids == ScopeIds(c)
        IN \A i, j \in 1..Len(ids) : i < j => ids[i] < ids[j]

\* Two records of one scope, persisted by two different calls.
C1_Witness ==
    \E i, j \in 1..Len(ever) :
        /\ i < j
        /\ ever[i].country = ever[j].country
        /\ ever[i].run # ever[j].run
        /\ Len(store) = Len(ever)

C3_StalenessBoundaryInclusive ==
    \A p \in Procs :
        LET l == run[p].last
        IN (l.kind # "NONE" /\ Valid(l.cand) /\ ~l.matched /\ l.latest # NoDate) =>
              /\ DateToCheck(l.cand) = l.latest =>
                    l.kind = "STALE" /\ ~Matched(store, l.cand)
              /\ DateToCheck(l.cand) = l.latest + 1 => l.kind \in NewKinds

\* C4: a valid candidate whose three dates are all null and whose
\* fingerprint matches no row is NEW, whatever the high-water date.
C4_NullDateSafety ==
    \A p \in Procs :
        LET l == run[p].last
        IN (l.kind # "NONE" /\ Valid(l.cand) /\ ~l.matched /\ AllDatesNull(l.cand)) =>
              l.kind \in NewKinds

\* A dateless candidate was persisted in a scope that has a high-water date.
C4_Witness ==
    LET l == run[1].last
    IN /\ l.kind = "PERSISTED"
       /\ AllDatesNull(l.cand)
       /\ l.latest # NoDate

\* C5: skipped and failed items consume no identifier: the docket_ids that
\* successive persisted records of a scope get differ by exactly 1, within
\* one call (RunIds) and from one call to the next (ScopeIds).
C5_NoGaps ==
    \A c \in Countries :
        /\ LET ids == ScopeIds(c)
           IN \A i \in 1..(Len(ids) - 1) : ids[i + 1] = ids[i] + 1
        /\ \A no \in 1..runs :
               LET ids == RunIds(no, c)
               IN \A i \in 1..(Len(ids) - 1) : ids[i + 1] = ids[i] + 1

\* Nigeria holds 1001; a later item is skipped as a duplicate and the new
\* document after it gets 1002.
C5_Witness ==
    /\ run[1].country = "Nigeria"
    /\ run[1].kinds = <<"ALREADY_SEEN", "PERSISTED">>
    /\ run[1].last.docket = 1002
    /\ ScopeIds("Nigeria") = <<1001, 1002>>

\* C6: when the loop over a country's list begins, next_docket_id is the
\* configured starting_docket_id if the scope has no rows, and otherwise one
\* more than the largest docket_id of the scope.
C6_FirstIdentifier ==
    \A p \in Procs :
        (run[p].pc = "items" /\ run[p].kinds = <<>>) =>
            LET ids == ScopeIds(run[p].country)
                nxt == run[p].next_docket_id
            IN IF ids = <<>>
               THEN nxt = StartingDocketId[get_country_config(run[p].country)]
               ELSE /\ \E i \in 1..Len(ids) : ids[i] = nxt - 1
                    /\ \A i \in 1..Len(ids) : ids[i] < nxt

\* A country's loop begins over a scope that already holds a row.
C6_Witness ==
    /\ run[1].pc = "items"
    /\ run[1].kinds = <<>>
    /\ run[1].country = "Canada"
    /\ ScopeIds("Canada") = <<6001>>
    /\ run[1].next_docket_id = 6002

\* C7: a step in which insert_metadata returns False leaves the store and
\* next_docket_id as they were and moves on to the next item of the list,
\* and the next item that reaches insert_metadata is offered the same id.
C7_InsertFailureKeepsIdentifier ==
    [][\A p \in Procs :
         LET handled == Len(run'[p].kinds) = Len(run[p].kinds) + 1
         IN /\ (handled /\ run'[p].last.kind = "INSERT_FAILED") =>
                  /\ store' = store
                  /\ run'[p].next_docket_id = run[p].next_docket_id
                  /\ run'[p].last.docket = run[p].next_docket_id
                  /\ run'[p].pc = "items"
                  /\ run'[p].data_list = Tail(run[p].data_list)
            /\ (handled /\ run'[p].last.kind \in NewKinds
                        /\ \E k \in 1..Len(run[p].kinds) :
                              /\ run[p].kinds[k] = "INSERT_FAILED"
                              /\ \A h \in (k+1)..Len(run[p].kinds) :
                                     run[p].kinds[h] \notin NewKinds
                        /\ run[p].last.kind = "INSERT_FAILED") =>
                  run'[p].last.docket = run[p].last.docket
       ]_vars

\* An insert failed and the next item was persisted under the id it had been
\* offered, the first of the scope.
C7_Witness ==
    /\ run[1].country = "Nigeria"
    /\ run[1].kinds = <<"INSERT_FAILED", "PERSISTED">>
    /\ run[1].last.docket = 1001
    /\ ScopeIds("Nigeria") = <<1001>>

\* C8: a country whose scrape function raised or returned None has an empty
\* list and gets no row from this call, and when the call returns every
\* selected country has been scraped and its list worked through.
C8_SourceIsolation ==
    \A p \in Procs :
        LET failed(c) == run[p].disc[c] \in {"raised", "none"}
        IN /\ (run[p].pc = "items" /\ failed(run[p].country)) =>
                  run[p].found = 0 /\ run[p].data_list = <<>>
           /\ \A c \in Countries : failed(c) => RunIds(run[p].no, c) = <<>>
           /\ run[p].pc = "done" =>
                  /\ \A i \in 1..Len(run[p].selected) :
                         run[p].disc[run[p].selected[i]] # "pending"
                  /\ run[p].complete

\* Nigeria's scrape raised, and the same call went on to persist for Canada.
C8_Witness ==
    /\ run[1].pc = "done"
    /\ run[1].disc["Nigeria"] = "raised"
    /\ run[1].disc["Canada"] = "list"
    /\ RunIds(run[1].no, "Canada") # <<>>

\* Where a call of run_pipeline that is under way can be.
InCall == {"source", "cutoff", "fetch", "items", "new", "insert"}

\* What a call still has to do: the countries left, and within the current
\* one the items left.
WorkLeft(r) ==
    IF r.pc \in {"idle", "done"} THEN 0
    ELSE Len(r.countries) * (3 * MaxItems + 6)
         + (CASE r.pc = "source" -> 3 * MaxItems + 5
              [] r.pc = "cutoff" -> 3 * MaxItems + 4
              [] r.pc = "fetch"  -> 3 * MaxItems + 3
              [] r.pc = "new"    -> 3 * Len(r.data_list)
              [] r.pc = "insert" -> 3 * Len(r.data_list) - 1
              [] OTHER           -> 3 * Len(r.data_list) + 1)

\* C9: whatever fails (discovery, an invalid candidate, a fetch, a store
\* query, an insert, an exception in the handler, a file removal), a call of
\* run_pipeline returns having visited every candidate of every selected
\* country: a call under way can always take a step, each of its steps
\* leaves less to do, and when it has returned every selected country has
\* been scraped and every list worked through.
C9_NoFailureAbortsRun ==
    /\ [](\A p \in Procs :
            run[p].pc \in InCall =>
                ENABLED Step(p, AllFaults, FilterArgs, PlainCandidates))
    /\ [][\A p \in Procs :
            (run[p].pc \in InCall /\ run'[p] # run[p]) =>
                WorkLeft(run'[p]) < WorkLeft(run[p])]_vars
    /\ [](\A p \in Procs :
            run[p].pc = "done" =>
                /\ run[p].complete
                /\ \A i \in 1..Len(run[p].selected) :
                       run[p].disc[run[p].selected[i]] # "pending")

\* Nigeria's scrape raised; in Canada's list one item raised in the handler
\* and the insert of the other failed; the list has been worked through.
C9_Witness ==
    /\ run[1].pc = "items"
    /\ run[1].disc["Nigeria"] = "raised"
    /\ run[1].country = "Canada"
    /\ run[1].kinds = <<"ERROR", "INSERT_FAILED">>
    /\ run[1].last.file_left
    /\ run[1].data_list = <<>>

\* C10: a docket_id given to a record of a scope is never given to another
\* record of that scope, also after rows have been deleted.
C10_IdentifierNeverReused ==
    \A i, j \in 1..Len(ever) :
        (i < j /\ ever[i].country = ever[j].country) =>
            ever[i].docket_id # ever[j].docket_id

\* The handling of an item by process p ends in this step.
ItemHandled(p) == Len(run'[p].kinds) = Len(run[p].kinds) + 1

\* The fingerprint of candidate c is that of a row of the country's scope.
MatchedInScope(rows, country, c) == Matched(ScopeRows(rows, country), c)

\* C11: a candidate whose fingerprint is that of a row of its own scope is
\* skipped as ALREADY_SEEN and nothing is inserted, whatever its dates, also
\* when its date_to_check is later than the high-water date.
C11_FingerprintDecidedFirst ==
    [][\A p \in Procs :
         (ItemHandled(p) /\ MatchedInScope(store, run[p].country, run'[p].last.cand)) =>
             /\ run'[p].last.kind = "ALREADY_SEEN"
             /\ store' = store
             /\ run'[p].next_docket_id = run[p].next_docket_id]_vars

\* A candidate dated after the high-water date, with the fingerprint of a
\* row of its scope, was skipped as ALREADY_SEEN.
C11_Witness ==
    LET l == run[1].last
    IN /\ l.kind = "ALREADY_SEEN"
       /\ MatchedInScope(store, l.country, l.cand)
       /\ l.latest # NoDate
       /\ DateToCheck(l.cand) > l.latest

\* C12: for a candidate process_pdf produced with no modified date and a
\* posted/publish date, that date is the one compared with the high-water
\* date, whether or not there is an effective date: with no fingerprint
\* match the candidate is STALE exactly when its posted/publish date is not
\* after the high-water date.
C12_FirstPresentDateCompared ==
    \A p \in Procs :
        LET l == run[p].last
        IN (/\ l.kind # "NONE" /\ Valid(l.cand) /\ ~l.matched
            /\ l.latest # NoDate
            /\ l.cand.modified_date = NoDate
            /\ l.cand.public_date # NoDate) =>
               (l.kind = "STALE" <=> l.cand.public_date <= l.latest)

\* C13: for a scope without rows the high-water date read at the start of
\* the source's processing is null, and while it is null no candidate is
\* skipped as STALE, whatever its dates.
C13_NullHighWaterNeverStale ==
    /\ [][\A p \in Procs :
            (run[p].pc = "cutoff" /\ run'[p].pc = "fetch"
                /\ ScopeRows(store, run'[p].country) = <<>>) =>
                    run'[p].latest_date = NoDate]_vars
    /\ [](\A p \in Procs :
            run[p].last.kind = "STALE" => run[p].last.latest # NoDate)

\* In a scope that had no rows a dated candidate was persisted.
C13_Witness ==
    LET l == run[1].last
    IN /\ l.kind = "PERSISTED"
       /\ l.latest = NoDate
       /\ DateToCheck(l.cand) # NoDate
       /\ Len(ScopeRows(store, l.country)) = 1

\* C14: a candidate whose title or url is empty (None and '' alike are
\* false for `not title`) is dropped by the duplicate skip: it is never
\* tested for staleness, never handed to insert_metadata and takes no
\* docket_id; no row of the store has an empty title or url.
C14_InvalidNeverPersisted ==
    /\ \A p \in Procs :
          LET l == run[p].last
          IN (l.kind # "NONE" /\ l.cand.title # NoKey
                 /\ (l.cand.title = "" \/ l.cand.url = "")) =>
                /\ l.kind = "ALREADY_SEEN"
                /\ l.docket = 0
    /\ \A i \in 1..Len(store) : store[i].title # "" /\ store[i].url # ""

\* With an empty store the first candidate of a list was dropped by the
\* duplicate skip, which only an empty title or url does, and the next one
\* got the scope's first id.
C14_Witness ==
    \E p \in Procs :
        /\ Len(run[p].kinds) = 2
        /\ run[p].kinds[1] = "ALREADY_SEEN"
        /\ run[p].last.kind = "PERSISTED"
        /\ run[p].last.docket = StartingDocketId[get_country_config(run[p].country)]
        /\ Len(store) = 1

\* C15: when the handling of a candidate ends in a successful insert, in
\* the duplicate or the stale skip, or in an exception, and removing files
\* works, the candidate's file does not exist afterwards.
C15_CleanupAfterHandling ==
    \A p \in Procs :
        LET l == run[p].last
        IN l.kind \in {"PERSISTED", "ALREADY_SEEN", "STALE", "ERROR"} => ~l.file_left

\* A list of two candidates that came with files: the first raised in the
\* handler, the second was persisted, and neither file is left.
C15_Witness ==
    /\ run[1].kinds = <<"ERROR", "PERSISTED">>
    /\ run[1].last.cand.has_file
    /\ ~run[1].last.file_left

\* C16: when insert_metadata returns False the candidate's file is left
\* where it is: it exists afterwards exactly if it existed before.
C16_InsertFailureKeepsFile ==
    \A p \in Procs :
        LET l == run[p].last
        IN l.kind = "INSERT_FAILED" => (l.file_left <=> l.cand.has_file)

\* The insert of a candidate that came with a file failed; the file is there.
C16_Witness ==
    /\ run[1].last.kind = "INSERT_FAILED"
    /\ run[1].last.cand.has_file
    /\ run[1].last.file_left

\* C17: a file removal that fails changes nothing else.  After an insert
\* that succeeded the row is in the store under the id offered, the counter
\* is one further and the loop is at the next candidate; after a skip or an
\* exception the store and the counter are as they were and the loop is at
\* the next candidate.
C17_CleanupFailureContained ==
    [][\A p \in Procs :
         (/\ ItemHandled(p)
          /\ run'[p].last.kind # "INSERT_FAILED"
          /\ run'[p].last.file_left) =>
             /\ run'[p].data_list = Tail(run[p].data_list)
             /\ run'[p].last.kind = "PERSISTED" =>
                   /\ Len(store') = Len(store) + 1
                   /\ store'[Len(store')].docket_id = run[p].next_docket_id
                   /\ run'[p].next_docket_id = run[p].next_docket_id + 1
             /\ run'[p].last.kind # "PERSISTED" =>
                   /\ store' = store
                   /\ run'[p].next_docket_id = run[p].next_docket_id]_vars

\* Two candidates were persisted one after the other; removing the file of
\* the second failed, its row is in the store and the counter went on.
C17_Witness ==
    /\ run[1].kinds = <<"PERSISTED", "PERSISTED">>
    /\ run[1].last.file_left
    /\ run[1].last.docket = run[1].next_docket_id - 1
    /\ \E i \in 1..Len(store) : store[i].docket_id = run[1].last.docket

\* The call has just been entered: `country` still is the parameter, which
\* the for loop of line 57 rebinds.
AtEntry(r) == r.pc = "source" /\ r.country \in FilterArgs

\* C18: with a filter that equals, case-insensitively, the name of a
\* configured source, the call sets out to process that source and no
\* other; with no filter or one that matches none, all of them.  At return
\* the scrape functions of exactly the sources it set out for were called.
C18_SourceFilter ==
    \A p \in Procs :
        LET r == run[p]
            hits == {k \in Countries : Lower(k) = Lower(r.country)}
        IN /\ AtEntry(r) =>
                IF r.country # NoFilter /\ hits # {}
                THEN \E k \in hits : r.selected = <<k>>
                ELSE r.selected = ScrapeKeys
           /\ r.pc = "done" =>
                \A c \in Countries :
                    (r.disc[c] \in ScrapeOutcomes(c)) <=>
                        (\E i \in 1..Len(r.selected) : r.selected[i] = c)

\* run_pipeline("CANADA") has returned: Canada was scraped, and only Canada.
C18_Witness ==
    /\ run[1].pc = "done"
    /\ run[1].selected = <<"Canada">>
    /\ run[1].disc["Canada"] = "list"
    /\ run[1].disc["Nigeria"] = "pending"

\* C19: process_pdf uses the network for a URL only if no row of the store
\* has that URL and the URL's cache file does not exist.
C19_NoRefetch ==
    disk.got.fetched => (~disk.got.in_store /\ ~disk.got.had_file)

\* The latest process_pdf call went to the network and did not get its
\* document: the GET failed, the rendering of an HTML page failed, or the
\* writing of the file failed.
RetrievalFailed ==
    /\ disk.got.fetched
    /\ disk.got.net \in {"failed", "partial"}

\* C20: a candidate whose retrieval failed is not put on the list (so it is
\* not persisted and takes no docket_id), the scrape goes on with the next
\* link, and no file of that candidate is on disk afterwards.
C20_RetrievalFailureLeavesNothing ==
    RetrievalFailed =>
        /\ ~disk.got.appended
        /\ ~disk.got.file_after
        /\ \A p \in Procs : run[p].pc = "scrape" => ENABLED NextRetrieval

\* C21: no row of the store has a null agency_id, document_type or
\* reference; a value that is unknown is stored as the empty string.
C21_ProvenanceNeverNull ==
    \A i \in 1..Len(store) :
        /\ store[i].agency_id # PyNone
        /\ store[i].document_type # PyNone
        /\ store[i].reference # PyNone

\* C22: stopping a call of run_pipeline at any point leaves every row it
\* inserted in the store; a later call never persists a fingerprint that an
\* interrupted call persisted, and every row a call persists gets a
\* docket_id greater than all docket_ids its scope holds at that moment.
C22_InterruptedRunResumes ==
    /\ [][\A i \in 1..Len(store) : i <= Len(store') /\ store'[i] = store[i]]_vars
    /\ [](\A i, j \in 1..Len(ever) :
             (ever[i].run \in run[ever[i].proc].cut /\ ever[j].run > ever[i].run)
                 => ever[j].doc_hash # ever[i].doc_hash)
    /\ [][Len(store') > Len(store) =>
             LET row == store'[Len(store')]
                 scope == ScopeRows(store, row.country)
             IN \A i \in 1..Len(scope) : scope[i].docket_id < row.docket_id]_vars

\* The first call was stopped after it had persisted a document; the second
\* call persisted a new document of the same scope under the next docket_id,
\* met the first call's document again, skipped it as a duplicate, and has
\* no item of this source left.
C22_Witness ==
    /\ Len(ever) = 2
    /\ ever[1].run = 1 /\ 1 \in run[1].cut
    /\ ever[2].run = 2 /\ ever[2].country = ever[1].country
    /\ ever[2].docket_id = ever[1].docket_id + 1
    /\ Len(store) = 2
    /\ run[1].no = 2 /\ run[1].pc = "items" /\ run[1].data_list = <<>>
    /\ run[1].last.kind = "ALREADY_SEEN"
    /\ Valid(run[1].last.cand)
    /\ doc_hash(run[1].last.cand.title, run[1].last.cand.url) = ever[1].doc_hash

\* C23: also when the query for the scope's highest docket_id fails, no row
\* is persisted under a docket_id that is less than or equal to the
\* docket_id of a row the scope already held.
C23_AllocatorSurvivesQueryFailure ==
    \A j \in 1..Len(ever) : \A i \in 1..(j - 1) :
        (ever[j].run > 0 /\ ever[i].country = ever[j].country)
            => ever[i].docket_id < ever[j].docket_id

\* The non-null values in the three date columns of a scope's rows.
ScopeDates(rows, country) ==
    LET scope == ScopeRows(rows, country)
    IN UNION {{scope[i].modified_date, scope[i].publish_date, scope[i].effective_date} :
                 i \in 1..Len(scope)} \ {NoDate}

\* C24: the latest_date run_pipeline holds when it turns to the first item
\* of a source is the greatest date in the three date columns of the scope's
\* rows, and null when there is none (an empty scope, or only null dates);
\* it is never the date 1900-01-01.
C24_HighWaterIsMaxOfDates ==
    \A p \in Procs :
        (run[p].pc = "items" /\ run[p].kinds = <<>>) =>
            LET dates == ScopeDates(store, run[p].country)
            IN /\ run[p].latest_date # Sentinel1900
               /\ dates = {} => run[p].latest_date = NoDate
               /\ dates # {} => /\ run[p].latest_date \in dates
                                /\ \A d \in dates : d <= run[p].latest_date

\* C25: the row persisted for a candidate holds the candidate's title, url
\* and description (as abstract) and, in each date column, the candidate's
\* date of that name in calendar form, or null where the candidate has none;
\* no column holds the day of the insert in place of it.
C25_PayloadFidelity ==
    \A p \in Procs :
        (run[p].last.kind = "PERSISTED" /\ store # <<>>) =>
            LET c == run[p].last.cand
                row == store[Len(store)]
            IN /\ row.title = c.title
               /\ row.url = c.url
               /\ row.abstract = c.description
               /\ row.publish_date = normalize_date(c.posted_date)
               /\ row.modified_date = normalize_date(c.modified_date)
               /\ row.effective_date = normalize_date(c.effective_date)

\* The store as it was when the call of process p turned to its current
\* source: without the rows the call has persisted for it since.
StoreAtStart(p) ==
    LET kinds == run[p].kinds
        mine == {i \in 1..Len(kinds) : kinds[i] = "PERSISTED"}
    IN SubSeq(store, 1, Len(store) - Cardinality(mine))

\* C26: while the items of a source are handled, latest_date is the
\* high-water date of the scope as it was before the first of them, whatever
\* was inserted since; so every candidate that is no duplicate and carries a
\* date later than that cutoff is NEW, also after one with the same date.
C26_CutoffFixedForSource ==
    \A p \in Procs :
        run[p].pc = "items" =>
            LET l == run[p].last
                cutoff == get_latest_date(StoreAtStart(p), run[p].country, TRUE, driver)
            IN /\ run[p].latest_date = cutoff
               /\ ( /\ run[p].kinds # <<>>
                    /\ Valid(l.cand) /\ ~l.matched
                    /\ DateToCheck(l.cand) # NoDate
                    /\ (cutoff = NoDate \/ DateToCheck(l.cand) > cutoff) )
                  => l.kind \in NewKinds

\* C27: no two rows of the store have the same fingerprint, whatever the
\* candidate lists repeat and whichever store queries fail.
C27_FingerprintUnique ==
    \A i, j \in 1..Len(store) :
        i # j => store[i].doc_hash # store[j].doc_hash

\* C28: a document that an earlier call found and did not persist is not
\* skipped as stale by a later call.  The table is empty before the first
\* call, so nothing is stale in it, and the pages do not change: a candidate
\* a later call does not find in the table is one whose insert failed
\* before.
C28_NotLostToStaleness ==
    \A p \in Procs :
        (run[p].no > 1 /\ run[p].kinds # <<>> /\ ~run[p].last.matched)
            => run[p].last.kind # "STALE"

\* C29: a process may start a source whatever another process is doing, and
\* every row it persists gets the docket_id it computed when it started the
\* source, whatever the store holds by then; rows of one scope with the same
\* docket_id are always rows of two different processes.
C29_UniqueOnlyUnderOneOrchestrator ==
    /\ [](\A p \in Procs :
             (run[p].pc = "source" /\ run[p].countries # <<>>) => ENABLED StartSource(p, {}))
    /\ [][\A p \in Procs :
             (Len(store') = Len(store) + 1 /\ run'[p] # run[p])
                 => store'[Len(store')].docket_id = run[p].next_docket_id]_vars
    /\ [](\A i, j \in 1..Len(ever) :
             ( /\ i < j
               /\ ever[i].country = ever[j].country
               /\ ever[i].docket_id = ever[j].docket_id )
                 => ever[i].proc # ever[j].proc)

\* Two calls ran at once on the scope of Nigeria: both read the same
\* last_docket_id from the empty scope and each persisted a document under
\* docket_id 1001.
C29_Witness ==
    /\ Len(store) = 2
    /\ store[1].country = "Nigeria" /\ store[2].country = "Nigeria"
    /\ store[1].docket_id = store[2].docket_id
    /\ store[1].doc_hash # store[2].doc_hash
    /\ ever[1].proc # ever[2].proc
    /\ \A p \in Procs : run[p].pc = "done"

\* C30: a candidate that can be fingerprinted is skipped as a duplicate only
\* if a row of its own (program_id, country) scope has its fingerprint; rows
\* of other scopes do not make it ALREADY_SEEN.
C30_DedupConfinedToScope ==
    \A p \in Procs :
        LET l == run[p].last
        IN (l.kind = "ALREADY_SEEN" /\ Valid(l.cand))
               => MatchedInScope(store, l.country, l.cand)

====
